---- MODULE Spec2Model ----
(***************************************************************************)
(* Model of the comparable-matching and price-estimation engine of the     *)
(* AutoScan backend:                                                       *)
(*   - app/estimators.py : _percentile, estimate_from_rows                 *)
(*   - app/api_server.py : _fold, _query_rows                              *)
(* Three specifications share the module, one per component.  Each draws   *)
(* the inputs of its component in Init and applies the component's code    *)
(* in its actions; the variables of the other components stay idle.        *)
(***************************************************************************)
EXTENDS Integers, Sequences, FiniteSets, TLC

VARIABLES
    rows,            \* estimate_from_rows: the argument `rows`
    target_year,     \* estimate_from_rows: the argument `target_year`
    target_mileage,  \* estimate_from_rows: the argument `target_mileage`
    motor_hint,      \* estimate_from_rows: the argument `motor_hint`
    est,             \* estimate_from_rows: the outcome of the call
    db,              \* _query_rows: the content of listings_fresh
    q,               \* _query_rows: the keyword arguments of the call
    sel,             \* _query_rows: the outcome of the call
    fold_in,         \* _fold: the argument `s`
    fold_out,        \* _fold: the outcome (first and second application)
    fuel_in,         \* _fuel_norm, guess_fuel: the text classified
    fuel_out,        \* _fuel_norm, guess_fuel: the outcome of each
    resp             \* price_estimate: the response of the handler

vars == <<rows, target_year, target_mileage, motor_hint, est,
          db, q, sel, fold_in, fold_out, fuel_in, fuel_out, resp>>

(***************************************************************************)
(* Bounds of the model.                                                    *)
(***************************************************************************)
MaxRows == 4
MaxPool == 2
MaxLen == 3
MaxTokens == 2
MaxFound == 3

(***************************************************************************)
(* Python values.  A value is a record with a type tag; `i` carries an     *)
(* int, `s` the characters of a str.                                       *)
(***************************************************************************)
PyNone == [t |-> "none", i |-> 0, s |-> <<>>]
PyInt(n) == [t |-> "int", i |-> n, s |-> <<>>]
PyStr(x) == [t |-> "str", i |-> 0, s |-> x]

Min(a, b) == IF a <= b THEN a ELSE b
Max(a, b) == IF a >= b THEN a ELSE b
Abs(a) == IF a < 0 THEN 0 - a ELSE a

(***************************************************************************)
(* Characters.  A str is a sequence of characters; a character is named    *)
(* by a string: ASCII letters, digits and punctuation by themselves, "sp"  *)
(* is U+0020, "tab" is U+0009, "Scaron"/"scaron" are U+0160/U+0161 and     *)
(* "caron" is the combining mark U+030C.                                   *)
(***************************************************************************)
PyLowerChar(c) ==
    CASE c = "S" -> "s"
      [] c = "O" -> "o"
      [] c = "T" -> "t"
      [] c = "D" -> "d"
      [] c = "I" -> "i"
      [] c = "Scaron" -> "scaron"
      [] OTHER -> c

\* str.lower()
PyLower(x) == [k \in 1..Len(x) |-> PyLowerChar(x[k])]

\* str.isspace() of one character
IsSpace(c) == c \in {"sp", "tab"}

RECURSIVE LStrip(_)
LStrip(x) == IF x # <<>> /\ IsSpace(Head(x)) THEN LStrip(Tail(x)) ELSE x

RECURSIVE RStrip(_)
RStrip(x) ==
    IF x # <<>> /\ IsSpace(x[Len(x)]) THEN RStrip(SubSeq(x, 1, Len(x) - 1)) ELSE x

\* str.strip()
PyStrip(x) == RStrip(LStrip(x))

\* the Python operator `a in b` on two str
Contains(a, b) ==
    \E k \in 0..(Len(b) - Len(a)) : SubSeq(b, k + 1, k + Len(a)) = a

\* truthiness of a value, as `x or y` and `if x` test it
Truthy(v) ==
    CASE v.t = "none" -> FALSE
      [] v.t = "int" -> v.i # 0
      [] OTHER -> v.s # <<>>

(***************************************************************************)
(* app/estimators.py                                                       *)
(***************************************************************************)
IsDigit(c) == c \in {"0", "1", "2", "3", "4", "5", "6", "7", "8", "9"}

DigitVal(c) ==
    CASE c = "0" -> 0 [] c = "1" -> 1 [] c = "2" -> 2 [] c = "3" -> 3
      [] c = "4" -> 4 [] c = "5" -> 5 [] c = "6" -> 6 [] c = "7" -> 7
      [] c = "8" -> 8 [] OTHER -> 9

RECURSIVE DecimalVal(_)
DecimalVal(x) ==
    IF x = <<>> THEN 0
    ELSE 10 * DecimalVal(SubSeq(x, 1, Len(x) - 1)) + DigitVal(x[Len(x)])

\* float(price) inside try/except: [ok, val]; ok = FALSE is the except branch.
\* An int converts to itself, a str of decimal digits to its value, any
\* other str raises ValueError.
PyFloat(v) ==
    CASE v.t = "int" -> [ok |-> TRUE, val |-> v.i]
      [] v.t = "str" /\ v.s # <<>> /\ (\A k \in 1..Len(v.s) : IsDigit(v.s[k]))
           -> [ok |-> TRUE, val |-> DecimalVal(v.s)]
      [] OTHER -> [ok |-> FALSE, val |-> 0]

\* The percentiles asked for are 0.25, 0.5 and 0.75: p is carried as the
\* number pn of quarters, and a float result as the number of quarters it
\* holds (exact for int prices: every product below is a multiple of 0.25).
Quarters == 4

\* A faulty variant of _percentile: the two interpolation weights exchanged.
PercentileWeightsSwapped(sorted_vals, pn) ==
    IF sorted_vals = <<>> THEN [nan |-> TRUE, q4 |-> 0]
    ELSE LET k4 == (Len(sorted_vals) - 1) * pn
             f == k4 \div Quarters
             c == (k4 + Quarters - 1) \div Quarters
         IN  IF f = c
             THEN [nan |-> FALSE, q4 |-> Quarters * sorted_vals[f + 1]]
             ELSE LET d0 == sorted_vals[f + 1] * (k4 - Quarters * f)
                      d1 == sorted_vals[c + 1] * (Quarters * c - k4)
                  IN  [nan |-> FALSE, q4 |-> d0 + d1]

\* _percentile(sorted_vals, pn / 4): [nan, q4] with the result q4 / 4.
\* sorted_vals is indexed from 1 here, from 0 in the code.
_percentile(sorted_vals, pn) ==
    IF sorted_vals = <<>> THEN [nan |-> TRUE, q4 |-> 0]
    ELSE LET k4 == (Len(sorted_vals) - 1) * pn
             f == k4 \div Quarters
             c == (k4 + Quarters - 1) \div Quarters
         IN  IF f = c
             THEN [nan |-> FALSE, q4 |-> Quarters * sorted_vals[f + 1]]
             ELSE LET d0 == sorted_vals[f + 1] * (Quarters * c - k4)
                      d1 == sorted_vals[c + 1] * (k4 - Quarters * f)
                  IN  [nan |-> FALSE, q4 |-> d0 + d1]

\* round(x) of the float x = q4 / 4: to the nearest int, a tie to the even one
PyRound(q4) ==
    LET fl == q4 \div Quarters
        r == q4 % Quarters
    IN  IF 2 * r < Quarters THEN fl
        ELSE IF 2 * r > Quarters THEN fl + 1
        ELSE IF fl % 2 = 0 THEN fl ELSE fl + 1

\* A weight is a fraction <<numerator, denominator>>.
WMul(w, n, d) == <<w[1] * n, w[2] * d>>

\* A faulty variant of RowStep: a row whose motor does not hold the hint is
\* skipped.
RowStepHintFilters(r, ty, tm, hint) ==
    LET price == r.price_czk
        fl == PyFloat(price)
        mv == IF Truthy(r.motor) THEN r.motor ELSE PyStr(<<>>)
        motor == PyLower(mv.s)
    IN  IF price.t = "none" THEN [kind |-> "skip", price |-> 0, w |-> <<1, 1>>]
        ELSE IF ~fl.ok THEN [kind |-> "skip", price |-> 0, w |-> <<1, 1>>]
        ELSE IF mv.t # "str" THEN [kind |-> "raise", price |-> 0, w |-> <<1, 1>>]
        ELSE IF hint # <<>> /\ ~Contains(hint, motor)
             THEN [kind |-> "skip", price |-> 0, w |-> <<1, 1>>]
        ELSE [kind |-> "keep", price |-> fl.val, w |-> <<1, 1>>]

\* One turn of the loop over rows: the row is skipped ("skip"), appended
\* with its weight ("keep"), or the turn raises ("raise": .lower() of a
\* motor that is neither falsy nor a str).
RowStep(r, ty, tm, hint) ==
    LET price == r.price_czk
        fl == PyFloat(price)
        y == r.year
        m == r.mileage
        w0 == <<1, 1>>
        w1 == IF y.t = "int" THEN WMul(w0, 10, 10 + Abs(y.i - ty)) ELSE w0
        w2 == IF m.t = "int" THEN WMul(w1, 50000, 50000 + Abs(m.i - tm)) ELSE w1
        mv == IF Truthy(r.motor) THEN r.motor ELSE PyStr(<<>>)
        motor == PyLower(mv.s)
        w3 == IF hint # <<>> /\ Contains(hint, motor) THEN WMul(w2, 115, 100) ELSE w2
    IN  IF price.t = "none" THEN [kind |-> "skip", price |-> 0, w |-> w0]
        ELSE IF ~fl.ok THEN [kind |-> "skip", price |-> 0, w |-> w0]
        ELSE IF mv.t # "str" THEN [kind |-> "raise", price |-> 0, w |-> w0]
        ELSE [kind |-> "keep", price |-> fl.val, w |-> w3]

\* The loop over rows: [raised, paired], paired the list of <<price, weight>>
\* in the order of the rows.
RECURSIVE Collect(_, _, _, _)
Collect(rs, ty, tm, hint) ==
    IF rs = <<>> THEN [raised |-> FALSE, paired |-> <<>>]
    ELSE LET head == Collect(SubSeq(rs, 1, Len(rs) - 1), ty, tm, hint)
             st == RowStep(rs[Len(rs)], ty, tm, hint)
         IN  IF head.raised \/ st.kind = "raise"
             THEN [raised |-> TRUE, paired |-> <<>>]
             ELSE IF st.kind = "skip" THEN head
             ELSE [raised |-> FALSE,
                   paired |-> Append(head.paired, <<st.price, st.w>>)]

\* A faulty variant of NoPrices: the early return of None left out.
NoPricesUnchecked(paired) == FALSE

\* `if not prices`
NoPrices(paired) == paired = <<>>

\* Insert x behind every element whose price is <= x's (a stable sort).
RECURSIVE InsertByPrice(_, _)
InsertByPrice(x, srt) ==
    IF srt = <<>> THEN <<x>>
    ELSE IF srt[Len(srt)][1] <= x[1] THEN Append(srt, x)
    ELSE Append(InsertByPrice(x, SubSeq(srt, 1, Len(srt) - 1)), srt[Len(srt)])

\* A faulty variant of SortedByPrice: the pairs left in the order of the rows.
LeftUnsorted(paired) == paired

\* sorted(zip(prices, weights), key=lambda x: x[0])
RECURSIVE SortedByPrice(_)
SortedByPrice(paired) ==
    IF paired = <<>> THEN <<>>
    ELSE InsertByPrice(paired[Len(paired)],
                       SortedByPrice(SubSeq(paired, 1, Len(paired) - 1)))

\* sp = [p for p, _ in paired]
PricesOf(paired) == [k \in 1..Len(paired) |-> paired[k][1]]

\* round(x) if not math.isnan(x) else None
RoundOrNone(x) == IF x.nan THEN PyNone ELSE PyInt(PyRound(x.q4))

NoResult ==
    [kind |-> "none", price_czk |-> PyNone, low_czk |-> PyNone,
     high_czk |-> PyNone, count |-> 0]

\* estimate_from_rows(rows, target_year, target_mileage, motor_hint):
\* kind "none" is the return of None, "dict" the return of the dict,
\* "raised" an exception leaving the call.
estimate_from_rows(rs, ty, tm, mh) ==
    LET hv == IF Truthy(mh) THEN mh ELSE PyStr(<<>>)
        hint == PyLower(PyStrip(hv.s))
        got == Collect(rs, ty, tm, hint)
        sp == PricesOf(SortedByPrice(got.paired))
    IN  IF got.raised THEN [NoResult EXCEPT !.kind = "raised"]
        ELSE IF NoPrices(got.paired) THEN NoResult
        ELSE [kind |-> "dict",
              price_czk |-> RoundOrNone(_percentile(sp, 2)),
              low_czk |-> RoundOrNone(_percentile(sp, 1)),
              high_czk |-> RoundOrNone(_percentile(sp, 3)),
              count |-> Len(sp)]

(***************************************************************************)
(* The estimator's inputs.  A row is the dict of one listing; only the     *)
(* keys estimate_from_rows reads are kept.                                 *)
(***************************************************************************)
Row(p, y, m, mo) == [price_czk |-> p, year |-> y, mileage |-> m, motor |-> mo]

RowPrices ==
    {PyNone, PyInt(0 - 100), PyInt(0),
     PyInt(100), PyInt(200), PyInt(300), PyInt(400)}

\* Seven rows that differ in the price alone, and three that carry a str
\* price, a year and a mileage that are no int, and a motor that is no str.
RowSet ==
    {Row(p, PyInt(2020), PyInt(100000), PyNone) : p \in RowPrices}
    \cup {Row(PyStr(<<"2", "5", "0">>), PyStr(<<"x">>), PyStr(<<"x">>),
              PyStr(<<"2", ".", "0", "sp", "T", "D", "I">>)),
          Row(PyStr(<<"x">>), PyInt(2021), PyStr(<<"x">>), PyInt(2)),
          Row(PyInt(100), PyInt(2021), PyInt(150000), PyInt(2))}

SeqsUpTo(S, n) == UNION {[1..k -> S] : k \in 0..n}

SelIdle ==
    /\ db = {}
    /\ q = [kind |-> "idle"]
    /\ sel = [kind |-> "idle"]

FoldIdle ==
    /\ fold_in = PyNone
    /\ fold_out = [kind |-> "idle"]

FuelIdle ==
    /\ fuel_in = PyNone
    /\ fuel_out = [kind |-> "idle"]

HandlerIdle == resp = [kind |-> "idle"]

EstIdle ==
    /\ rows = <<>>
    /\ target_year = 0
    /\ target_mileage = 0
    /\ motor_hint = PyNone
    /\ est = [NoResult EXCEPT !.kind = "idle"]

InitEst ==
    /\ rows \in SeqsUpTo(RowSet, MaxRows)
    /\ \E t \in {<<2020, PyNone>>, <<2021, PyStr(<<"sp", "t", "d", "i">>)>>} :
         /\ target_year = t[1]
         /\ motor_hint = t[2]
    /\ target_mileage = 100000
    /\ est = [NoResult EXCEPT !.kind = "pending"]

\* One call of estimate_from_rows.
EstimateFromRows ==
    /\ est.kind = "pending"
    /\ est' = estimate_from_rows(rows, target_year, target_mileage, motor_hint)
    /\ UNCHANGED <<rows, target_year, target_mileage, motor_hint,
                   db, q, sel, fold_in, fold_out, fuel_in, fuel_out, resp>>

(***************************************************************************)
(* app/api_server.py: _fold                                                *)
(***************************************************************************)
\* unicodedata.normalize("NFD", .) of one character: the precomposed
\* letters decompose into the base letter and the combining caron.
Decomposed(c) ==
    CASE c = "Scaron" -> <<"S", "caron">>
      [] c = "scaron" -> <<"s", "caron">>
      [] OTHER -> <<c>>

RECURSIVE NFD(_)
NFD(x) == IF x = <<>> THEN <<>> ELSE Decomposed(Head(x)) \o NFD(Tail(x))

\* unicodedata.category(ch): "caron" (U+030C) is a nonspacing mark,
\* "enclosing" (U+20DD COMBINING ENCLOSING CIRCLE) an enclosing mark.
Category(c) ==
    CASE c = "caron" -> "Mn"
      [] c = "enclosing" -> "Me"
      [] c = "sp" -> "Zs"
      [] c \in {"S", "T", "D", "I", "O", "Scaron"} -> "Lu"
      [] OTHER -> "Ll"

NotMn(c) == Category(c) # "Mn"

\* A faulty variant of _fold: strip() applied before the marks are removed.
FoldStripsFirst(v) ==
    IF ~Truthy(v) THEN <<>>
    ELSE PyLower(SelectSeq(PyStrip(NFD(v.s)), NotMn))

\* _fold(s), s None or a str; the result is a str
_fold(v) ==
    IF ~Truthy(v) THEN <<>>
    ELSE PyLower(PyStrip(SelectSeq(NFD(v.s), NotMn)))

FoldChars == {"s", "S", "scaron", "Scaron", "caron", "enclosing", "sp"}

InitFold ==
    /\ fold_in \in {PyNone} \cup {PyStr(x) : x \in SeqsUpTo(FoldChars, MaxLen)}
    /\ fold_out = [kind |-> "pending", once |-> <<>>, twice |-> <<>>]

\* _fold applied to the input
Fold ==
    /\ fold_out.kind = "pending"
    /\ fold_out' = [fold_out EXCEPT !.kind = "once", !.once = _fold(fold_in)]
    /\ UNCHANGED <<fold_in, rows, target_year, target_mileage, motor_hint, est,
                   db, q, sel, fuel_in, fuel_out, resp>>

\* _fold applied to its own output
FoldAgain ==
    /\ fold_out.kind = "once"
    /\ fold_out' = [fold_out EXCEPT !.kind = "twice",
                                    !.twice = _fold(PyStr(fold_out.once))]
    /\ UNCHANGED <<fold_in, rows, target_year, target_mileage, motor_hint, est,
                   db, q, sel, fuel_in, fuel_out, resp>>

InitFolder == InitFold /\ EstIdle /\ SelIdle /\ FuelIdle /\ HandlerIdle

NextFold == Fold \/ FoldAgain

SpecFold == InitFolder /\ [][NextFold]_vars

\* The words of the fuel tables, as character sequences.
W_naft == <<"n", "a", "f", "t">>
W_diesel == <<"d", "i", "e", "s", "e", "l">>
W_dizel == <<"d", "i", "z", "e", "l">>
W_benz == <<"b", "e", "n", "z">>
W_petrol == <<"p", "e", "t", "r", "o", "l">>
W_gasoline == <<"g", "a", "s", "o", "l", "i", "n", "e">>
W_ba == <<"b", "a">>
W_hybr == <<"h", "y", "b", "r">>
W_hybrid == <<"h", "y", "b", "r", "i", "d">>
W_ev == <<"e", "v">>
W_elekt == <<"e", "l", "e", "k", "t">>
W_electr == <<"e", "l", "e", "c", "t", "r">>
W_lpg == <<"l", "p", "g">>
W_plyn == <<"p", "l", "y", "n">>
W_cng == <<"c", "n", "g">>
W_nafta == <<"n", "a", "f", "t", "a">>
W_d == <<"d">>
W_de == <<"d", "e">>
W_dies == <<"d", "i", "e", "s">>
W_benzin == <<"b", "e", "n", "z", "i", "n">>
W_autoplyn == <<"a", "u", "t", "o", "p", "l", "y", "n">>
W_hev == <<"h", "e", "v">>
W_phev == <<"p", "h", "e", "v">>
W_electro == <<"e", "l", "e", "c", "t", "r", "o">>
W_electric == <<"e", "l", "e", "c", "t", "r", "i", "c">>
W_elektro == <<"e", "l", "e", "k", "t", "r", "o">>
W_dizel_acute == <<"d", "iacute", "z", "e", "l">>
W_benzin_acute == <<"b", "e", "n", "z", "iacute", "n">>
W_elect_dot == <<"e", "l", "e", "c", "t", ".">>
W_plugin_hybrid == <<"p", "l", "u", "g", "i", "n", "-", "h", "y", "b", "r", "i", "d">>
W_plug_in_hybrid == <<"p", "l", "u", "g", "-", "i", "n", "sp", "h", "y", "b", "r", "i", "d">>
W_plug_in == <<"p", "l", "u", "g", "-", "i", "n">>

(***************************************************************************)
(* app/api_server.py: _fuel_norm, _fuel_patterns, _query_rows              *)
(* An SQL value is NULL (PyNone), an integer or a text.                    *)
(***************************************************************************)
\* `any(k in f for k in ks)`
AnyIn(ks, f) == \E k \in ks : Contains(k, f)

\* _fuel_norm(user_fuel): the label, or <<>> for None
_fuel_norm(user_fuel) ==
    LET uf == IF Truthy(user_fuel) THEN user_fuel.s ELSE <<>>
        f == PyLower(PyStrip(uf))
    IN  IF f = <<>> THEN <<>>
        ELSE IF AnyIn({W_naft, W_diesel, W_dizel_acute, W_dizel}, f) THEN W_diesel
        ELSE IF AnyIn({W_benz, W_petrol, W_gasoline, W_ba}, f) THEN W_petrol
        ELSE IF Contains(W_hybr, f) THEN W_hybrid
        ELSE IF AnyIn({W_ev, W_elekt, W_electr}, f) THEN W_elect_dot
        ELSE IF Contains(W_lpg, f) \/ Contains(W_plyn, f) THEN W_lpg
        ELSE IF Contains(W_cng, f) THEN W_cng
        ELSE <<>>

\* _fuel_patterns(user_fuel): the texts t of the patterns '%t%'
_fuel_patterns(user_fuel) ==
    LET uf == IF Truthy(user_fuel) THEN user_fuel.s ELSE <<>>
        f == PyLower(PyStrip(uf))
    IN  IF f = <<>> THEN {}
        ELSE IF f \in {W_nafta, W_diesel, W_d, W_de, W_dizel, W_dizel_acute}
             THEN {W_naft, W_dies}
        ELSE IF f \in {W_benzin, W_benzin_acute, W_ba, W_petrol, W_gasoline, W_benz}
             THEN {W_benz}
        ELSE IF f \in {W_lpg, W_autoplyn, W_plyn} THEN {W_lpg, W_autoplyn, W_plyn}
        ELSE IF f \in {W_cng} THEN {W_cng}
        ELSE IF f \in {W_hybrid, W_hev, W_phev, W_plugin_hybrid, W_plug_in_hybrid, W_plug_in}
             THEN {W_hybr}
        ELSE IF f \in {W_ev, W_electro, W_electric, W_elektro} THEN {W_elekt}
        ELSE {f}

\* SQLite's LOWER() and the case folding of LIKE touch ASCII letters only.
SqlLowerChar(c) ==
    CASE c = "S" -> "s"
      [] c = "O" -> "o"
      [] c = "T" -> "t"
      [] c = "D" -> "d"
      [] c = "I" -> "i"
      [] OTHER -> c

SqlLower(x) == [k \in 1..Len(x) |-> SqlLowerChar(x[k])]

\* COALESCE(a, b)
Coalesce(a, b) == IF a.t # "none" THEN a ELSE b

\* LOWER(v) of an SQL value
SqlLowerVal(v) == IF v.t = "str" THEN PyStr(SqlLower(v.s)) ELSE v

\* `v LIKE '%' || t || '%'`, true (not NULL, not false) for a text v that
\* holds t, letters compared without regard to ASCII case; t holds neither
\* '%' nor '_'
Like(v, t) == v.t = "str" /\ Contains(SqlLower(t), SqlLower(v.s))

\* REPLACE(x, ' ', '') and str.replace(' ', '')
NotBlank(c) == c # "sp"
NoBlanks(x) == SelectSeq(x, NotBlank)

\* the brand predicate (lines 139-144)
BrandMatches(r, qq) ==
    Like(Coalesce(r.brand_fold, SqlLowerVal(r.brand)), _fold(qq.brand))

\* the model predicate (lines 140, 146-150)
ModelMatches(r, qq) ==
    \/ Like(Coalesce(r.model_fold, SqlLowerVal(r.model)), _fold(qq.model))
    \/ Like(Coalesce(r.model_base_fold,
                     Coalesce(r.model_fold, SqlLowerVal(r.model))), _fold(qq.model))

\* `x BETWEEN lo AND hi` of an SQL value x
Between(x, lo, hi) == x.t = "int" /\ lo <= x.i /\ x.i <= hi

\* A faulty variant of InYearWindow: the upper end of the window left out.
YearWindowHalfOpen(r, qq) ==
    /\ r.year.t = "int"
    /\ qq.year - qq.window_year <= r.year.i
    /\ r.year.i < qq.year + qq.window_year

\* (year BETWEEN ? AND ?)
InYearWindow(r, qq) ==
    Between(r.year, qq.year - qq.window_year, qq.year + qq.window_year)

\* (mileage BETWEEN ? AND ?)
InMileageWindow(r, qq) ==
    Between(r.mileage, Max(0, qq.mileage - qq.window_km), qq.mileage + qq.window_km)

\* the fuel predicate (lines 161-174)
FuelMatches(r, qq) ==
    IF ~Truthy(qq.fuel) THEN TRUE
    ELSE LET norm == _fuel_norm(qq.fuel)
             pats == _fuel_patterns(qq.fuel)
         IN  IF norm # <<>>
             THEN \/ Coalesce(r.fuel_norm, PyStr(<<>>)) = PyStr(norm)
                  \/ Like(SqlLowerVal(r.fuel), norm)
             ELSE IF pats # {}
             THEN \E t \in pats : Like(SqlLowerVal(r.fuel), t)
             ELSE TRUE

\* A faulty variant of MotorMatches: the text compared with its blanks kept.
MotorKeepsBlanks(r, qq) ==
    IF ~Truthy(qq.motor) THEN TRUE
    ELSE LET m == PyLower(PyStrip(qq.motor.s))
             mo == Coalesce(r.motor, PyStr(<<>>))
         IN  IF m = <<>> THEN TRUE
             ELSE Like(SqlLowerVal(mo), m)

\* the motor predicate (lines 177-187)
MotorMatches(r, qq) ==
    IF ~Truthy(qq.motor) THEN TRUE
    ELSE LET m == PyLower(PyStrip(qq.motor.s))
             mo == Coalesce(r.motor, PyStr(<<>>))
         IN  IF m = <<>> THEN TRUE
             ELSE \/ Like(SqlLowerVal(PyStr(NoBlanks(mo.s))), NoBlanks(m))
                  \/ Like(SqlLowerVal(mo), m)

\* the WHERE clause
Where(r, qq) ==
    /\ BrandMatches(r, qq)
    /\ ModelMatches(r, qq)
    /\ InYearWindow(r, qq)
    /\ InMileageWindow(r, qq)
    /\ FuelMatches(r, qq)
    /\ MotorMatches(r, qq)

Matching(table, qq) == {r \in table : Where(r, qq)}

\* `a < b` and `a = b` of two values of price_czk under ORDER BY ... ASC:
\* NULL sorts before every integer
PriceLess(a, b) ==
    \/ a.t = "none" /\ b.t # "none"
    \/ a.t = "int" /\ b.t = "int" /\ a.i < b.i

\* A faulty variant of StrictlyBefore: ORDER BY without its third key.
BeforeWithoutPrice(a, b, qq) ==
    LET ya == Abs(a.year.i - qq.year)
        yb == Abs(b.year.i - qq.year)
        ma == Abs(a.mileage.i - qq.mileage)
        mb == Abs(b.mileage.i - qq.mileage)
    IN  \/ ya < yb
        \/ ya = yb /\ ma < mb

\* ORDER BY ABS(year - ?) ASC, ABS(mileage - ?) ASC, price_czk ASC:
\* row a is placed before row b whatever the engine does with ties
StrictlyBefore(a, b, qq) ==
    LET ya == Abs(a.year.i - qq.year)
        yb == Abs(b.year.i - qq.year)
        ma == Abs(a.mileage.i - qq.mileage)
        mb == Abs(b.mileage.i - qq.mileage)
    IN  \/ ya < yb
        \/ ya = yb /\ ma < mb
        \/ ya = yb /\ ma = mb /\ PriceLess(a.price_czk, b.price_czk)

\* The arrangements of the rows S that ORDER BY allows: rows whose three
\* keys tie come in an order SQL leaves to the engine.
Orderings(S, qq) ==
    {o \in [1..Cardinality(S) -> S] :
        /\ \A i, j \in 1..Cardinality(S) : i # j => o[i] # o[j]
        /\ \A i, j \in 1..Cardinality(S) : i < j => ~StrictlyBefore(o[j], o[i], qq)}

\* LIMIT ?: a negative limit is no limit
Limited(o, limit) ==
    IF limit < 0 THEN o ELSE SubSeq(o, 1, Min(limit, Len(o)))

\* A faulty variant of Results: the rows cut to the limit before they are ordered.
ResultsCutFirst(table, qq) ==
    LET M == Matching(table, qq)
        n == IF qq.limit < 0 THEN Cardinality(M) ELSE Min(qq.limit, Cardinality(M))
    IN  UNION {Orderings(T, qq) : T \in {U \in SUBSET M : Cardinality(U) = n}}

\* the lists the SELECT may return
Results(table, qq) ==
    {Limited(o, qq.limit) : o \in Orderings(Matching(table, qq), qq)}

(***************************************************************************)
(* app/sources/sauto.py: guess_fuel, and the classifiers' inputs           *)
(***************************************************************************)
W_tdi == <<"t", "d", "i">>
W_dci == <<"d", "c", "i">>
W_cdti == <<"c", "d", "t", "i">>
W_tsi == <<"t", "s", "i">>
W_mpi == <<"m", "p", "i">>
W_Diesel == <<"D", "i", "e", "s", "e", "l">>
W_TDI == <<"T", "D", "I">>
W_TSI == <<"T", "S", "I">>
W_TDI_20 == <<"T", "D", "I", "sp", "2", ".", "0">>
W_20 == <<"2", ".", "0">>

\* guess_fuel(motor_text, fallback=""): the label returned
guess_fuel(motor_text) ==
    LET mt == PyLower(motor_text)
    IN  IF AnyIn({W_tdi, W_dci, W_cdti, W_nafta}, mt) THEN W_nafta
        ELSE IF AnyIn({W_tsi, W_mpi, W_benzin}, mt) THEN W_benzin
        ELSE IF Contains(W_hybrid, mt) THEN W_hybrid
        ELSE IF Contains(W_elektro, mt) \/ Contains(W_ev, mt) THEN W_elektro
        ELSE <<>>

\* The texts classified: up to MaxTokens of these pieces, joined.
FuelTokens ==
    {W_TDI, W_TSI, W_TDI_20, W_20, <<"sp">>, W_nafta, W_Diesel, W_benzin,
     W_hybrid, W_lpg}

RECURSIVE Joined(_)
Joined(ts) == IF ts = <<>> THEN <<>> ELSE Head(ts) \o Joined(Tail(ts))

FuelTexts == {Joined(ts) : ts \in SeqsUpTo(FuelTokens, MaxTokens)}

InitFuel ==
    /\ fuel_in \in {PyNone} \cup {PyStr(x) : x \in FuelTexts}
    /\ fuel_out = [kind |-> "pending", norm |-> <<>>, guess |-> <<>>]

\* _fuel_norm applied to the text
FuelNorm ==
    /\ fuel_out.kind = "pending"
    /\ fuel_out' = [fuel_out EXCEPT !.kind = "norm", !.norm = _fuel_norm(fuel_in)]
    /\ UNCHANGED <<fuel_in, resp, rows, target_year, target_mileage, motor_hint,
                   est, db, q, sel, fold_in, fold_out>>

\* guess_fuel applied to the same text (a str: the scraper passes the text
\* of the listing)
GuessFuel ==
    /\ fuel_out.kind = "norm"
    /\ fuel_in.t = "str"
    /\ fuel_out' = [fuel_out EXCEPT !.kind = "both", !.guess = guess_fuel(fuel_in.s)]
    /\ UNCHANGED <<fuel_in, resp, rows, target_year, target_mileage, motor_hint,
                   est, db, q, sel, fold_in, fold_out>>

InitClassifier == InitFuel /\ EstIdle /\ SelIdle /\ FoldIdle /\ HandlerIdle

NextFuel == FuelNorm \/ GuessFuel

SpecFuel == InitClassifier /\ [][NextFuel]_vars

\* The texts of the listings and of the calls, as character sequences.
W_skoda == <<"s", "k", "o", "d", "a">>
W_Skoda_caron == <<"Scaron", "k", "o", "d", "a">>
W_seat == <<"s", "e", "a", "t">>
W_octavia == <<"o", "c", "t", "a", "v", "i", "a">>
W_Octavia == <<"O", "c", "t", "a", "v", "i", "a">>
W_octavia_combi == <<"o", "c", "t", "a", "v", "i", "a", "sp", "c", "o", "m", "b", "i">>
W_20_TDI == <<"2", ".", "0", "sp", "T", "D", "I">>
W_20tdi_blank == <<"sp", "2", ".", "0", "t", "d", "i">>

(***************************************************************************)
(* The selector's inputs: the rows of listings_fresh and the arguments of  *)
(* the call.  The table is a set: its rows differ in their url, and SQL    *)
(* fixes no order among rows that tie on every ORDER BY key.               *)
(***************************************************************************)
Listing(b, bf, mo, mf, mbf, y, mi, fu, fn, mt, p) ==
    [brand |-> b, brand_fold |-> bf, model |-> mo, model_fold |-> mf,
     model_base_fold |-> mbf, year |-> y, mileage |-> mi, fuel |-> fu,
     fuel_norm |-> fn, motor |-> mt, price_czk |-> p]

\* a diesel Octavia Combi without the folded columns
Plain(y, mi, p) ==
    Listing(PyStr(W_skoda), PyNone, PyStr(W_octavia_combi), PyNone, PyNone,
            y, mi, PyStr(W_Diesel), PyNone, PyStr(W_20_TDI), p)

ListingYears == {2020, 2021, 2022}
ListingMileages == {0 - 1, 0, 2, 3}
ListingPrices == {100, 200}

Listings ==
    {Plain(PyInt(y), PyInt(mi), PyInt(p)) :
        y \in ListingYears, mi \in ListingMileages, p \in ListingPrices}
    \cup {Plain(PyInt(2021), PyInt(2), PyNone),
          Plain(PyNone, PyNone, PyInt(100)),
          [Plain(PyInt(2021), PyInt(2), PyInt(100)) EXCEPT !.brand = PyStr(W_seat)],
          Listing(PyStr(W_Skoda_caron), PyStr(W_skoda), PyStr(W_Octavia), PyNone,
                  PyStr(W_octavia), PyInt(2021), PyInt(2), PyStr(W_benzin),
                  PyStr(W_petrol), PyNone, PyInt(100))}

Range(f) == {f[k] : k \in DOMAIN f}

Query(y, wy, wk, fu, mt, lim) ==
    [brand |-> PyStr(W_Skoda_caron), model |-> PyStr(W_Octavia), year |-> y,
     mileage |-> 1, window_km |-> wk, window_year |-> wy, fuel |-> fu,
     motor |-> mt, limit |-> lim, fresh_hours |-> 999999]

\* Calls without a fuel or motor filter over every window that is not
\* negative, calls with a negative window, and calls with a filter.
Queries ==
    {Query(y, wy, wk, PyNone, PyNone, lim) :
        y \in {2020, 2021}, wy \in {0, 1}, wk \in {1, 2}, lim \in {0 - 1, 1, 2}}
    \cup {Query(2020, w[1], w[2], PyNone, PyNone, lim) :
            w \in {<<0 - 1, 1>>, <<1, 0 - 1>>, <<0 - 1, 0 - 1>>}, lim \in {0 - 1, 2}}
    \cup {Query(2021, 1, 2, f[1], f[2], lim) :
            f \in {<<PyStr(W_Diesel), PyNone>>, <<PyNone, PyStr(W_20tdi_blank)>>},
            lim \in {0 - 1, 1}}

InitSel ==
    /\ db \in {Range(f) : f \in SeqsUpTo(Listings, MaxPool)}
    /\ q \in Queries
    /\ sel = [kind |-> "pending", rows |-> <<>>]

\* One call of _query_rows (from /comps or /price/estimate): the list of
\* row dicts it returns.  No path of the function rejects its arguments.
QueryRows ==
    /\ sel.kind = "pending"
    /\ \E res \in Results(db, q) : sel' = [kind |-> "rows", rows |-> res]
    /\ UNCHANGED <<db, q, rows, target_year, target_mileage, motor_hint, est,
                   fold_in, fold_out, fuel_in, fuel_out, resp>>

InitSelector == InitSel /\ EstIdle /\ FoldIdle /\ FuelIdle /\ HandlerIdle

NextSel == QueryRows

SpecSel == InitSelector /\ [][NextSel]_vars

InitEstimator == InitEst /\ SelIdle /\ FoldIdle /\ FuelIdle /\ HandlerIdle

NextEst == EstimateFromRows

SpecEst == InitEstimator /\ [][NextEst]_vars

(***************************************************************************)
(* The selector under its fuel and motor filters: listings that agree on   *)
(* brand, model, year, mileage and price and differ in fuel, fuel_norm and *)
(* motor, and calls whose windows hold them all and whose limit cuts       *)
(* nothing.                                                                *)
(***************************************************************************)
W_20TDI == <<"2", ".", "0", "T", "D", "I">>
W_20_tab_TDI == <<"2", ".", "0", "tab", "T", "D", "I">>
W_20_tdi == <<"2", ".", "0", "sp", "t", "d", "i">>
W_14_TSI == <<"1", ".", "4", "sp", "T", "S", "I">>
W_S_TDI == <<"Scaron", "sp", "T", "D", "I">>

Car(fu, fn, mt) ==
    Listing(PyStr(W_skoda), PyNone, PyStr(W_octavia_combi), PyNone, PyNone,
            PyInt(2021), PyInt(2), fu, fn, mt, PyInt(100))

FilterListings ==
    {Car(PyStr(W_nafta), PyNone, PyStr(W_20_TDI)),
     Car(PyStr(W_Diesel), PyNone, PyStr(W_20TDI)),
     Car(PyStr(W_nafta), PyStr(W_diesel), PyStr(W_20_tab_TDI)),
     Car(PyStr(W_benzin), PyNone, PyStr(W_14_TSI)),
     Car(PyStr(W_benzin), PyStr(W_petrol), PyNone),
     Car(PyNone, PyNone, PyNone),
     Car(PyStr(W_TDI), PyNone, PyStr(W_20_TDI)),
     Car(PyStr(W_hybrid), PyNone, PyStr(W_S_TDI))}

FuelFilters ==
    {PyStr(W_Diesel), PyStr(W_nafta), PyStr(W_benzin), PyStr(W_TDI),
     PyStr(<<"sp">>), PyStr(<<>>)}

MotorFilters ==
    {PyStr(W_20_tdi), PyStr(W_20tdi_blank), PyStr(W_20_tab_TDI), PyStr(W_TSI),
     PyStr(W_S_TDI), PyStr(<<"sp">>), PyStr(<<"tab">>), PyStr(<<>>)}

FilterQueries ==
    {Query(2021, 1, 2, fu, PyNone, 0 - 1) : fu \in FuelFilters}
    \cup {Query(2021, 1, 2, PyNone, mt, 0 - 1) : mt \in MotorFilters}
    \cup {Query(2021, 1, 2, PyStr(W_Diesel), PyStr(W_20_tdi), 0 - 1)}

InitFilter ==
    /\ db \in {Range(f) : f \in SeqsUpTo(FilterListings, MaxPool)}
    /\ q \in FilterQueries
    /\ sel = [kind |-> "pending", rows |-> <<>>]

InitFiltered == InitFilter /\ EstIdle /\ FoldIdle /\ FuelIdle /\ HandlerIdle

SpecFilter == InitFiltered /\ [][NextSel]_vars

(***************************************************************************)
(* app/api_server.py: price_estimate                                       *)
(***************************************************************************)
\* prices = [r["price_czk"] for r in rows if r["price_czk"]]
RECURSIVE TruthyPrices(_)
TruthyPrices(rs) ==
    IF rs = <<>> THEN <<>>
    ELSE LET head == TruthyPrices(SubSeq(rs, 1, Len(rs) - 1))
             p == rs[Len(rs)].price_czk
         IN  IF Truthy(p) THEN Append(head, p.i) ELSE head

RECURSIVE InsertInt(_, _)
InsertInt(x, srt) ==
    IF srt = <<>> THEN <<x>>
    ELSE IF srt[Len(srt)] <= x THEN Append(srt, x)
    ELSE Append(InsertInt(x, SubSeq(srt, 1, Len(srt) - 1)), srt[Len(srt)])

\* sorted(prices), as statistics.median, min and max see the prices
RECURSIVE SortedInts(_)
SortedInts(xs) ==
    IF xs = <<>> THEN <<>>
    ELSE InsertInt(xs[Len(xs)], SortedInts(SubSeq(xs, 1, Len(xs) - 1)))

RECURSIVE SumOf(_)
SumOf(xs) == IF xs = <<>> THEN 0 ELSE xs[Len(xs)] + SumOf(SubSeq(xs, 1, Len(xs) - 1))

\* round(n / d) for d > 0: to the nearest int, a tie to the even one
RoundRatio(n, d) ==
    LET fl == n \div d
        r == n % d
    IN  IF 2 * r < d THEN fl
        ELSE IF 2 * r > d THEN fl + 1
        ELSE IF fl % 2 = 0 THEN fl ELSE fl + 1

\* twice statistics.median(prices) of the sorted prices: the middle one, or
\* the mean of the two middle ones
MedianTwice(srt) ==
    LET n == Len(srt)
    IN  IF n % 2 = 1 THEN 2 * srt[(n + 1) \div 2]
        ELSE srt[n \div 2] + srt[n \div 2 + 1]

\* low = max(min(prices), median_price * 0.94), times 200
LowTimes200(srt) == Max(200 * srt[1], 94 * MedianTwice(srt))

\* high = min(max(prices), median_price * 1.18), times 200
HighTimes200(srt) == Min(200 * srt[Len(srt)], 118 * MedianTwice(srt))

NoEstimate ==
    [kind |-> "no_rows", found |-> 0, price_czk |-> 0, low_czk |-> 0,
     high_czk |-> 0, count |-> 0, mean |-> 0, median |-> 0, min |-> 0, max |-> 0]

\* the response of price_estimate to the rows _query_rows returned
PriceResponse(rs) ==
    LET prices == TruthyPrices(rs)
        srt == SortedInts(prices)
    IN  IF rs = <<>> THEN NoEstimate
        ELSE IF prices = <<>>
             THEN [NoEstimate EXCEPT !.kind = "no_prices", !.found = Len(rs)]
        ELSE [kind |-> "estimate",
              found |-> Len(prices),
              price_czk |-> RoundRatio(MedianTwice(srt), 2),
              low_czk |-> RoundRatio(LowTimes200(srt), 200),
              high_czk |-> RoundRatio(HighTimes200(srt), 200),
              count |-> Len(prices),
              mean |-> RoundRatio(SumOf(prices), Len(prices)),
              median |-> RoundRatio(MedianTwice(srt), 2),
              min |-> srt[1],
              max |-> srt[Len(srt)]]

\* The listings of the handler's table: the prices are NULL, 0, negative or
\* whole hundreds, so that 0.94 and 1.18 times a median are whole numbers
\* and the float products round as the exact ones do.
HandlerPrices == {PyNone, PyInt(0), PyInt(0 - 100), PyInt(100), PyInt(200), PyInt(300)}

HandlerListings ==
    {Plain(PyInt(2021), PyInt(mi), p) : mi \in {2, 3}, p \in HandlerPrices}

HandlerQueries ==
    {Query(2021, 1, 2, PyNone, PyNone, lim) : lim \in {0 - 1, 1, 2}}
    \cup {Query(2019, 0, 2, PyNone, PyNone, 0 - 1)}

InitHandler ==
    /\ db \in {Range(f) : f \in SeqsUpTo(HandlerListings, MaxFound)}
    /\ q \in HandlerQueries
    /\ sel = [kind |-> "idle"]
    /\ resp = [NoEstimate EXCEPT !.kind = "pending"]

\* One request to /price/estimate: the call of _query_rows and the
\* response computed from its rows.
PriceEstimate ==
    /\ resp.kind = "pending"
    /\ \E res \in Results(db, q) : resp' = PriceResponse(res)
    /\ UNCHANGED <<db, q, sel, rows, target_year, target_mileage, motor_hint,
                   est, fold_in, fold_out, fuel_in, fuel_out>>

InitEndpoint == InitHandler /\ EstIdle /\ FoldIdle /\ FuelIdle

NextHandler == PriceEstimate

SpecHandler == InitEndpoint /\ [][NextHandler]_vars

\* The components together: a behaviour runs one of them.
Init ==
    \/ InitEstimator
    \/ InitSelector
    \/ InitFolder
    \/ InitClassifier
    \/ InitFiltered
    \/ InitEndpoint

Next == NextEst \/ NextSel \/ NextFold \/ NextFuel \/ NextHandler

Spec == Init /\ [][Next]_vars

(***************************************************************************)
(* Properties of the estimator (checked under SpecEst).                    *)
(***************************************************************************)
\* the call has returned the dict
EstDict == est.kind = "dict"

\* the prices float() accepts, in the order of the rows, read off the rows
\* themselves: an int, or a str of decimal digits
Usable(r) ==
    \/ r.price_czk.t = "int"
    \/ /\ r.price_czk.t = "str"
       /\ r.price_czk.s # <<>>
       /\ \A k \in 1..Len(r.price_czk.s) : IsDigit(r.price_czk.s[k])

UsableRows == SelectSeq(rows, Usable)

PriceValue(r) ==
    IF r.price_czk.t = "int" THEN r.price_czk.i ELSE DecimalVal(r.price_czk.s)

\* s is a non-decreasing arrangement of the prices of the usable rows
IsSortedSample(s) ==
    /\ Len(s) = Len(UsableRows)
    /\ \A k \in 1..(Len(s) - 1) : s[k] <= s[k + 1]
    /\ \A v \in {s[k] : k \in 1..Len(s)} \cup {PriceValue(UsableRows[k]) : k \in 1..Len(UsableRows)} :
         Cardinality({k \in 1..Len(s) : s[k] = v})
           = Cardinality({k \in 1..Len(UsableRows) : PriceValue(UsableRows[k]) = v})

\* the sample the call sorted
Sample == PricesOf(SortedByPrice(Collect(rows, target_year, target_mileage,
                                         PyLower(PyStrip(motor_hint.s))).paired))

\* The order statistic of the specification, in quarters: with k = (n-1)*p,
\* s[k] when k is integral, else s[floor k] and s[floor k + 1] weighted by
\* the fractional part of k (s indexed from 0 in that sentence).
Interpolated(s, pn) ==
    LET k4 == (Len(s) - 1) * pn
        lo == k4 \div 4
        fr == k4 % 4
    IN  IF fr = 0 THEN 4 * s[lo + 1]
        ELSE s[lo + 1] * (4 - fr) + s[lo + 2] * fr

\* C1: for a non-empty ascending list and p in {0.25, 0.5, 0.75}, _percentile
\* returns the linearly interpolated order statistic, and estimate_from_rows
\* reports the three (rounded) as low_czk, price_czk and high_czk; the prices
\* 100, 200, 300, 400 give 175, 250 and 325.
C1_PercentileInterpolates ==
    EstDict =>
        /\ IsSortedSample(Sample)
        /\ \A pn \in 1..3 :
             _percentile(Sample, pn) = [nan |-> FALSE, q4 |-> Interpolated(Sample, pn)]
        /\ est.low_czk = PyInt(PyRound(Interpolated(Sample, 1)))
        /\ est.price_czk = PyInt(PyRound(Interpolated(Sample, 2)))
        /\ est.high_czk = PyInt(PyRound(Interpolated(Sample, 3)))
        /\ (Sample = <<100, 200, 300, 400>> =>
              /\ est.low_czk = PyInt(175)
              /\ est.price_czk = PyInt(250)
              /\ est.high_czk = PyInt(325))

\* C1 witness: the four prices, given out of order, are reported as 175/250/325.
C1_Witness ==
    /\ EstDict
    /\ Len(rows) = 4
    /\ [k \in 1..4 |-> rows[k].price_czk]
         = <<PyInt(400), PyInt(100), PyInt(300), PyInt(200)>>
    /\ est.low_czk = PyInt(175)
    /\ est.price_czk = PyInt(250)
    /\ est.high_czk = PyInt(325)

C3_DiscardsNonPositive ==
    est.kind \in {"dict", "none"} =>
        /\ est.count = Cardinality({k \in 1..Len(UsableRows) : PriceValue(UsableRows[k]) > 0})
        /\ \A k \in 1..Len(Sample) : Sample[k] > 0

\* C4: with no row, or with no row whose price is retained, the call returns
\* None (no numeric field, a sample of 0) and does not raise.
C4_NoDataReturnsNone ==
    (est.kind # "pending" /\ UsableRows = <<>>) => est = NoResult

\* C4 witness: rows were given, none with a usable price, and None came back.
C4_Witness ==
    /\ est = NoResult
    /\ Len(rows) >= 2
    /\ \E k \in 1..Len(rows) : rows[k].price_czk.t = "str"
    /\ \E k \in 1..Len(rows) : rows[k].price_czk.t = "none"

(***************************************************************************)
(* Properties of _fold (checked under SpecFold).                           *)
(***************************************************************************)
Folded == fold_out.kind \in {"once", "twice"}

NoEdgeSpace(x) == x = <<>> \/ (~IsSpace(x[1]) /\ ~IsSpace(x[Len(x)]))

Returned == sel.kind = "rows"

DistKm(r) == Abs(r.mileage.i - q.mileage)
DistYear(r) == Abs(r.year.i - q.year)

\* C5 (as claimed): the returned candidates are ordered by the mileage
\* distance first and by the year distance second.
C5_OrderedByMileageThenYear ==
    Returned =>
        \A i, j \in 1..Len(sel.rows) :
            i < j =>
                /\ DistKm(sel.rows[i]) <= DistKm(sel.rows[j])
                /\ (DistKm(sel.rows[i]) = DistKm(sel.rows[j])
                      => DistYear(sel.rows[i]) <= DistYear(sel.rows[j]))

\* C6: of two returned candidates with equal mileage distance and equal
\* year distance, the one with the lower price comes first.
C6_PriceBreaksTies ==
    Returned =>
        \A i, j \in 1..Len(sel.rows) :
            ( /\ DistKm(sel.rows[i]) = DistKm(sel.rows[j])
              /\ DistYear(sel.rows[i]) = DistYear(sel.rows[j])
              /\ sel.rows[i].price_czk.t = "int"
              /\ sel.rows[j].price_czk.t = "int"
              /\ sel.rows[i].price_czk.i < sel.rows[j].price_czk.i )
            => i < j

\* C6 witness: two candidates at equal distances but in different years and
\* at different prices were returned, the cheaper one first.
C6_Witness ==
    /\ Returned
    /\ Len(sel.rows) = 2
    /\ DistKm(sel.rows[1]) = DistKm(sel.rows[2])
    /\ DistYear(sel.rows[1]) = DistYear(sel.rows[2])
    /\ sel.rows[1].year # sel.rows[2].year
    /\ sel.rows[1].price_czk = PyInt(100)
    /\ sel.rows[2].price_czk = PyInt(200)

\* C7: for limit > 0 the list is the first min(limit, matching) rows of the
\* ordered matching set: it is in ORDER BY order, holds no row twice, and no
\* matching row left out sorts strictly before a returned one.
C7_TruncatesAfterOrdering ==
    (Returned /\ q.limit > 0) =>
        /\ Len(sel.rows) = Min(q.limit, Cardinality(Matching(db, q)))
        /\ Range(sel.rows) \subseteq Matching(db, q)
        /\ Cardinality(Range(sel.rows)) = Len(sel.rows)
        /\ \A i, j \in 1..Len(sel.rows) :
             i < j => ~StrictlyBefore(sel.rows[j], sel.rows[i], q)
        /\ \A m \in Matching(db, q) \ Range(sel.rows) :
             \A k \in 1..Len(sel.rows) : ~StrictlyBefore(m, sel.rows[k], q)

\* C7 witness: two rows match, the limit is 1, and the row left out sorts
\* strictly behind the one returned.
C7_Witness ==
    /\ Returned
    /\ q.limit = 1
    /\ Cardinality(Matching(db, q)) = 2
    /\ Len(sel.rows) = 1
    /\ \E m \in Matching(db, q) : StrictlyBefore(sel.rows[1], m, q)

\* the predicates of the WHERE clause other than the two windows
OtherPredicates(r) ==
    /\ BrandMatches(r, q)
    /\ ModelMatches(r, q)
    /\ FuelMatches(r, q)
    /\ MotorMatches(r, q)

\* the two windows, both ends included
InWindows(r) ==
    /\ r.year.t = "int"
    /\ r.mileage.t = "int"
    /\ q.year - q.window_year <= r.year.i
    /\ r.year.i <= q.year + q.window_year
    /\ Max(0, q.mileage - q.window_km) <= r.mileage.i
    /\ r.mileage.i <= q.mileage + q.window_km

\* C8: both windows are inclusive: every returned row lies in both, a row
\* with year = target year + window_year + 1 is never returned, and unless
\* LIMIT cut the list every row that lies in both windows and passes the
\* other predicates is returned.
C8_WindowsInclusive ==
    Returned =>
        /\ \A k \in 1..Len(sel.rows) : InWindows(sel.rows[k])
        /\ \A k \in 1..Len(sel.rows) :
             sel.rows[k].year.i # q.year + q.window_year + 1
        /\ (q.limit < 0 \/ Len(sel.rows) < q.limit) =>
             \A r \in db : (InWindows(r) /\ OtherPredicates(r)) => r \in Range(sel.rows)

\* C8 witness: a row at the upper end of both windows was returned while a
\* row one year later stayed out.
C8_Witness ==
    /\ Returned
    /\ \E k \in 1..Len(sel.rows) :
         /\ sel.rows[k].year.i = q.year + q.window_year
         /\ sel.rows[k].mileage.i = q.mileage + q.window_km
    /\ \E r \in db :
         /\ r.year = PyInt(q.year + q.window_year + 1)
         /\ OtherPredicates(r)
         /\ r \notin Range(sel.rows)

\* C9 (as claimed): a call with a negative window_year or window_km fails
\* with InvalidArgument and returns no list.
C9_NegativeWindowRejected ==
    (sel.kind # "pending" /\ (q.window_year < 0 \/ q.window_km < 0))
        => sel.kind = "invalid_argument"

(***************************************************************************)
(* Properties of the fuel classifiers (checked under SpecFuel).            *)
(***************************************************************************)
Classified == fuel_out.kind \in {"norm", "both"}

\* the text classified, lowercased (<<>> for None)
FuelLowered == PyLower(fuel_in.s)

\* C11 (as claimed): _fuel_norm maps a text holding a diesel alias, the
\* engine code "tdi" included, to diesel, a text holding a petrol alias,
\* "tsi" included (and no diesel alias), to petrol, and the empty text to
\* unknown; so "TDI 2.0" is diesel, "TSI" is petrol and "" is unknown.
C11_FuelNormKnowsEngineCodes ==
    Classified =>
        /\ (AnyIn({W_tdi, W_nafta, W_diesel}, FuelLowered)
              => fuel_out.norm = W_diesel)
        /\ ((AnyIn({W_tsi, W_benzin}, FuelLowered)
               /\ ~AnyIn({W_tdi, W_nafta, W_diesel}, FuelLowered))
              => fuel_out.norm = W_petrol)
        /\ (fuel_in = PyStr(W_TDI_20) => fuel_out.norm = W_diesel)
        /\ (fuel_in = PyStr(W_TSI) => fuel_out.norm = W_petrol)
        /\ (fuel_in = PyStr(<<>>) => fuel_out.norm = <<>>)

(***************************************************************************)
(* Properties of the fuel and motor filters (checked under SpecFilter).    *)
(***************************************************************************)
\* the call has a fuel filter that is not empty
FuelFilterGiven == q.fuel.t = "str" /\ PyStrip(q.fuel.s) # <<>>

\* every predicate of the WHERE clause but the fuel predicate
OtherThanFuel(r) ==
    /\ BrandMatches(r, q)
    /\ ModelMatches(r, q)
    /\ InYearWindow(r, q)
    /\ InMileageWindow(r, q)
    /\ MotorMatches(r, q)

\* the candidate's fuel text classifies to the class of the filter
SameFuelClass(r) ==
    /\ _fuel_norm(q.fuel) # <<>>
    /\ _fuel_norm(r.fuel) = _fuel_norm(q.fuel)

\* one side is unclassified and the candidate's fuel text holds the filter
FuelSubstringFallback(r) ==
    /\ _fuel_norm(q.fuel) = <<>> \/ _fuel_norm(r.fuel) = <<>>
    /\ r.fuel.t = "str"
    /\ Contains(PyLower(PyStrip(q.fuel.s)), PyLower(r.fuel.s))

\* C12 (as claimed): under a non-empty fuel filter every candidate that
\* passes the other predicates is returned when its fuel text classifies to
\* the filter's class, or when one side is unclassified and its fuel text
\* holds the filter.
C12_FuelFilterKeepsSameClass ==
    (sel.kind = "rows" /\ FuelFilterGiven /\ q.limit < 0) =>
        \A r \in db :
            (OtherThanFuel(r) /\ (SameFuelClass(r) \/ FuelSubstringFallback(r)))
                => r \in Range(sel.rows)

\* every predicate of the WHERE clause but the motor predicate
OtherThanMotor(r) ==
    /\ BrandMatches(r, q)
    /\ ModelMatches(r, q)
    /\ InYearWindow(r, q)
    /\ InMileageWindow(r, q)
    /\ FuelMatches(r, q)

\* the motor text of a candidate, '' for NULL
MotorText(r) == IF r.motor.t = "str" THEN r.motor.s ELSE <<>>

\* a text without its whitespace
NotWhite(c) == ~IsSpace(c)
NoWhitespace(x) == SelectSeq(x, NotWhite)

\* the call has a motor filter, and the filter without the whitespace at
\* its ends
MotorFilterGiven == sel.kind = "rows" /\ q.motor.t = "str" /\ q.limit < 0
MotorFilter == PyStrip(q.motor.s)

Estimated == est.kind \in {"none", "dict", "raised"}

\* a row whose price, year and mileage can all be read
WellFormed(r) == PyFloat(r.price_czk).ok /\ r.year.t = "int" /\ r.mileage.t = "int"

\* a row whose motor is a text or missing
MotorIsText(r) == r.motor.t \in {"none", "str"}

\* C14 (as claimed): over rows of which some have an unparseable price,
\* year or mileage the call does not raise, leaves each such row out of
\* count, and returns what it returns for the list without those rows.
C14_MalformedRowsSkipped ==
    (Estimated /\ \A k \in 1..Len(rows) : MotorIsText(rows[k])) =>
        /\ est.kind # "raised"
        /\ est = estimate_from_rows(SelectSeq(rows, WellFormed), target_year,
                                    target_mileage, motor_hint)
        /\ est.kind = "dict" => est.count = Len(SelectSeq(rows, WellFormed))

\* other targets and hints the same rows could be estimated for
OtherTargets ==
    {<<2019, 0, PyNone>>,
     <<2030, 150000, PyStr(<<"t", "d", "i">>)>>,
     <<2021, 100000, PyStr(<<"2", ".", "0">>)>>,
     <<2020, 99999, PyStr(<<"sp", "T", "D", "I", "sp">>)>>}

\* motor_hint as the loop uses it
HintOf(mh) == PyLower(PyStrip((IF Truthy(mh) THEN mh ELSE PyStr(<<>>)).s))

\* C15: the result of estimate_from_rows does not depend on target_year,
\* target_mileage or motor_hint: for the same rows every other choice of
\* the three gives the same price_czk, low_czk, high_czk and count (and
\* the same None or exception).
C15_TargetsDoNotMatter ==
    Estimated =>
        \A t \in OtherTargets : estimate_from_rows(rows, t[1], t[2], t[3]) = est

\* an estimate over two rows or more whose weights under another target
\* differ from the weights of the call
C15_Witness ==
    /\ est.kind = "dict"
    /\ est.count >= 2
    /\ \E t \in OtherTargets :
          Collect(rows, t[1], t[2], HintOf(t[3])).paired
              # Collect(rows, target_year, target_mileage, HintOf(motor_hint)).paired

(***************************************************************************)
(* Properties of /price/estimate (checked under SpecHandler).              *)
(***************************************************************************)
\* C16 (as claimed): whenever the handler returns a numeric estimate, its
\* band is ordered and inside the range of the sample:
\* min <= low_czk <= price_czk <= high_czk <= max.
C16_HandlerBandOrdered ==
    resp.kind = "estimate" =>
        /\ resp.min <= resp.low_czk
        /\ resp.low_czk <= resp.price_czk
        /\ resp.price_czk <= resp.high_czk
        /\ resp.high_czk <= resp.max

====
